---- MODULE Spec2Model ----
(***************************************************************************)
(* Model of the web-scraper service (lx-0/web-scraper): the Fastify        *)
(* server with its API-key hook, the /scrape, /stats and / handlers, the   *)
(* shared browser promise and the usage counters with their JSON file.     *)
(* Handlers run on one event loop: every action below is the code between  *)
(* two suspension points (await) of one handler, or the settling of one    *)
(* external operation (exec, launch, page call, file call).                *)
(***************************************************************************)
EXTENDS Integers, Sequences, FiniteSets, TLC

\* ---- bounds of the model
NumSlots == 2        \* requests that may be in flight at the same time
MaxArrivals == 3     \* requests that arrive in one behaviour
MaxLaunch == 2       \* browser launch attempts in one behaviour
MaxRuns == 2         \* handlers followed through their extractor, one after the other
MaxMetas == 4        \* meta elements of a page

Slots == 1..NumSlots

\* ---- request inputs
API_KEY == "k-good"
Missing == "<missing>"                 \* header not sent
Keys == {API_KEY, "k-bad", Missing}
Absent == "<absent>"                   \* body.url undefined
Omitted == "<omitted>"                 \* body.mode undefined
\* the request bodies that arrive, as <<url, mode>>
Bodies == {<<"u1", "text">>, <<"u1", Omitted>>, <<"u2", "text">>,
           <<Absent, "text">>, <<Absent, Omitted>>, <<"", "text">>}

Null == 0                              \* browserPromise === null
EmptyObj == [k \in {} |-> 0]           \* {}
NoMonth == <<>>
NoFile == [exists |-> FALSE, text |-> {}]
NoStats == [seen |-> FALSE, body |-> {}, quiet |-> FALSE, pair |-> FALSE]

VARIABLES
  req,            \* per slot: a /scrape request past validation, its handler's locals
  browserPromise, \* Null or the index of a launch attempt in launches
  launches,       \* launch attempts in start order: "pending" | "ok" | "failed"
  scrapeStats,    \* month -> url -> mode -> count
  statsFile,      \* data/scrape_stats.json: whether it exists, its text
  arrivals,       \* requests arrived so far
  lastSync,       \* history: the latest request if it was answered before any await
  ok200,          \* history: the scrapes answered 200, per month/url/mode
  lastStats,      \* history: the latest /stats answer, NoStats once a /scrape arrived
  retryDue,       \* history: a launch failed and getBrowser was not called since
  flush,          \* history: "failed" once a file write failed, else "overlapped"
                  \* once two usage recordings ran at the same time, else "clean"
  ex              \* the handler followed through its extractor (SpecExtract only)

vars == <<req, browserPromise, launches, scrapeStats, statsFile,
          arrivals, lastSync, ok200, lastStats, retryDue, flush, ex>>

\* ---- pure helpers

Put(f, k, v) == [x \in (DOMAIN f) \cup {k} |-> IF x = k THEN v ELSE f[x]]

padStart2(n) == IF n < 10 THEN <<0, n>> ELSE <<n \div 10, n % 10>>

\* new Date() throughout a behaviour, which stays within one calendar month:
\* <<getFullYear(), getMonth()>>, getMonth() is 0-based
Now == <<2024, 8>>

\* `${year}-${month + 1 padded to 2}` as <<year, digit, digit>>
getCurrentMonth(d) == <<d[1]>> \o padStart2(d[2] + 1)

\* a mode value with the default of the switch applied
ModeKeyDefaulted(mode) == IF mode = Omitted THEN "text" ELSE mode

\* property key of a mode value: String(undefined) = "undefined"
ModeKey(mode) == IF mode = Omitted THEN "undefined" ELSE mode

Count(s, m, u, k) ==
  IF m \in DOMAIN s /\ u \in DOMAIN s[m] /\ k \in DOMAIN s[m][u]
  THEN s[m][u][k] ELSE 0

\* logScrape that sets a fresh 0 whether or not the mode has a count
logScrapeReset(s, m, u, mode) ==
  LET k  == ModeKey(mode)
      s1 == IF m \in DOMAIN s THEN s ELSE Put(s, m, EmptyObj)
      s2 == IF u \in DOMAIN s1[m] THEN s1
            ELSE [s1 EXCEPT ![m] = Put(@, u, EmptyObj)]
      s3 == [s2 EXCEPT ![m][u] = Put(@, k, 0)]
  IN [s3 EXCEPT ![m][u][k] = @ + 1]

\* logScrape that increments twice
logScrapeTwice(s, m, u, mode) ==
  LET k  == ModeKey(mode)
      s1 == IF m \in DOMAIN s THEN s ELSE Put(s, m, EmptyObj)
      s2 == IF u \in DOMAIN s1[m] THEN s1
            ELSE [s1 EXCEPT ![m] = Put(@, u, EmptyObj)]
      s3 == IF k \in DOMAIN s2[m][u] /\ s2[m][u][k] # 0 THEN s2
            ELSE [s2 EXCEPT ![m][u] = Put(@, k, 0)]
  IN [s3 EXCEPT ![m][u][k] = @ + 2]

\* the in-memory part of logScrape
logScrape(s, m, u, mode) ==
  LET k  == ModeKey(mode)
      s1 == IF m \in DOMAIN s THEN s ELSE Put(s, m, EmptyObj)
      s2 == IF u \in DOMAIN s1[m] THEN s1
            ELSE [s1 EXCEPT ![m] = Put(@, u, EmptyObj)]
      s3 == IF k \in DOMAIN s2[m][u] /\ s2[m][u][k] # 0 THEN s2
            ELSE [s2 EXCEPT ![m][u] = Put(@, k, 0)]
  IN [s3 EXCEPT ![m][u][k] = @ + 1]

\* JSON text of the counters: its members as <<month, url, mode, count>>
JSONstringify(s) ==
  UNION { UNION { {<<m, u, k, s[m][u][k]>> : k \in DOMAIN s[m][u]}
                  : u \in DOMAIN s[m] }
          : m \in DOMAIN s }

\* ---- requests and handler frames

\* a request as it reaches the server, no response yet
Request(route, key, url, mode) ==
  [route |-> route, key |-> key, url |-> url, mode |-> mode,
   status |-> 0, body |-> "-", nresp |-> 0]

\* the frame of a /scrape handler: its request's url and mode, its locals
\* (aw: the launch attempt whose promise it awaits, page, month and data of
\* logScrape/saveStats, err: the step that failed), what it sent,
\* whether it recorded the usage, and its calls of page.close
Idle == [pc |-> "idle", url |-> "-", mode |-> "-", aw |-> Null,
         page |-> "null", month |-> NoMonth, data |-> {}, err |-> "-",
         status |-> 0, body |-> "-", nresp |-> 0, logged |-> FALSE,
         closeCalls |-> 0]
NoRequest == [route |-> "-", key |-> "-", url |-> "-", mode |-> "-",
              status |-> 0, body |-> "-", nresp |-> 0]

\* reply.code(code).send(body)
Reply(q, code, body) ==
  [q EXCEPT !.status = code, !.body = body, !.nresp = @ + 1]

\* the hook written as `if (apiKey && apiKey !== API_KEY)`
preHandlerIfPresent(url, apiKey) ==
  IF url = "/" THEN "done"
  ELSE IF apiKey # Missing /\ apiKey # API_KEY THEN "401" ELSE "done"

\* the preHandler hook: "done" lets the route handler run
preHandler(url, apiKey) ==
  IF url = "/" THEN "done"
  ELSE IF apiKey # API_KEY THEN "401" ELSE "done"

Unauthorized(q) == Reply(q, 401, "Unauthorized: Invalid API key")

\* url === ''
UrlEmptyOnly(url) == url = ""

\* !url
UrlMissing(url) == url = Absent \/ url = ""

\* !browserPromise
NeedsLaunch(bp) == bp = Null

\* the assignment in the .catch of puppeteer.launch
onLaunchError(bp) == Null

\* a switch whose default case rejects the mode
extractorForStrict(mode) ==
  CASE mode = "screenshot" -> "takeScreenshot"
    [] mode = "source"     -> "getPageSource"
    [] mode = "print"      -> "getPrintVersion"
    [] mode = "article"    -> "extractEnhancedArticle"
    [] mode = "text"       -> "extractReadableContent"
    [] OTHER               -> "Invalid mode"

\* switch (mode)
extractorFor(mode) ==
  CASE mode = "screenshot" -> "takeScreenshot"
    [] mode = "source"     -> "getPageSource"
    [] mode = "print"      -> "getPrintVersion"
    [] mode = "article"    -> "extractEnhancedArticle"
    [] OTHER               -> "extractReadableContent"

\* a catch block that only logs
CatchLogOnly(q) == q

\* catch (error) { ... reply.code(500).send(...) }
Catch(q) == Reply(q, 500, "An error occurred while scraping the website")

\* `return { content: result }`: sent when the handler has returned
SendContentOnReturn(q) == q

\* reply.send({ content: result })
SendContent(q) == Reply(q, 200, "content")

\* the page closed at the end of the try block only
FinallyAfterSuccess(q) ==
  IF q.page = "open" /\ q.status = 200 THEN [q EXCEPT !.pc = "closing"]
  ELSE [q EXCEPT !.pc = "done", !.url = "-", !.mode = "-", !.aw = Null]

\* finally { if (page) await page.close()... }; without a page the handler returns
Finally(q) ==
  IF q.page = "open" THEN [q EXCEPT !.pc = "closing"]
  ELSE [q EXCEPT !.pc = "done", !.url = "-", !.mode = "-", !.aw = Null]

\* an awaited operation rejects inside the try block
Throw(q, step) == Finally(Catch([q EXCEPT !.err = step]))

\* a /stats that reports the requests served so far with the counters
StatsReplyCounting(s) == JSONstringify(s) \cup {<<"requests", arrivals>>}

\* logScrape called without await: its rejection never reaches the handler
OnWriteErrorUnawaited(q) == Finally(SendContent([q EXCEPT !.err = "writeFile"]))

\* `await saveStats()` in logScrape, `await logScrape(...)` in the try block:
\* a rejected fs.writeFile is thrown inside the try block
OnWriteError(q) == Throw(q, "writeFile")

\* a write that appends to the file
fsAppendFile(file, data) == [exists |-> TRUE, text |-> file.text \cup data]

\* fs.writeFile(STATS_FILE, data) that succeeds: the file holds data only
fsWriteFile(file, data) == [exists |-> TRUE, text |-> data]

\* GET /stats: reply.send(scrapeStats)
StatsReply(s) == JSONstringify(s)

InFlight(q) == q.pc \notin {"idle", "done"}
AtWhich == {r \in Slots : req[r].pc = "which"}

\* article.byline of an article without one
NoByline == "<null>"

\* an extractor that has not returned
NoResult == [returned |-> FALSE, value |-> <<>>]

\* no handler is followed through its extractor. While one is: the mode it
\* received, what its page holds (art: Readability finds an article, byline,
\* the meta elements in document order as <<name or property, content>>), the
\* page's emulated media type and injected style, the extractors called, the
\* page operations done, the string built so far and returned (a sequence of
\* <<label, value>> parts, <<>> is ''), the operation that failed, and the
\* handlers followed so far
ExIdle ==
  [pc |-> "idle", mode |-> Omitted, art |-> FALSE, byline |-> NoByline,
   metas |-> <<>>, media |-> "screen", styled |-> FALSE, calls |-> <<>>,
   trace |-> <<>>, out |-> <<>>, result |-> NoResult, err |-> "-", runs |-> 0]

\* ---- initial state: after loadStats() found no file, before any request

Init ==
  /\ req = [r \in Slots |-> Idle]
  /\ browserPromise = Null
  /\ launches = <<>>
  /\ scrapeStats = EmptyObj
  /\ statsFile = NoFile
  /\ arrivals = 0
  /\ lastSync = NoRequest
  /\ ok200 = EmptyObj
  /\ lastStats = NoStats
  /\ retryDue = FALSE
  /\ flush = "clean"
  /\ ex = ExIdle

\* ---- requests arriving: preHandler hook, then the handler up to its first await

\* GET /
ArriveRoot(key) ==
  /\ UNCHANGED <<flush, ex>>
  /\ arrivals < MaxArrivals
  /\ arrivals' = arrivals + 1
  /\ LET q0 == Request("/", key, "-", "-")
     IN lastSync' = IF preHandler("/", key) = "401" THEN Unauthorized(q0)
                    ELSE Reply(q0, 200, "Web scraper service is running")
  /\ UNCHANGED <<req, browserPromise, launches, scrapeStats, statsFile,
                 ok200, lastStats, retryDue>>

\* GET /stats
ArriveStats(key) ==
  /\ UNCHANGED <<flush, ex>>
  /\ arrivals < MaxArrivals
  /\ arrivals' = arrivals + 1
  /\ LET q0 == Request("/stats", key, "-", "-")
     IN IF preHandler("/stats", key) = "401"
        THEN /\ lastSync' = Unauthorized(q0)
             /\ UNCHANGED lastStats
        ELSE /\ lastSync' = Reply(q0, 200, "stats")
             /\ lastStats' = [seen  |-> TRUE,
                              body  |-> StatsReply(scrapeStats),
                              quiet |-> \A x \in Slots : ~InFlight(req[x]),
                              pair  |-> lastStats.seen /\ lastStats.quiet]
  /\ UNCHANGED <<req, browserPromise, launches, scrapeStats, statsFile,
                 ok200, retryDue>>

\* POST /scrape up to `await promisify(exec)(...)` or `await getBrowser()`
ArriveScrape(r, key, url, mode) ==
  /\ UNCHANGED <<flush, ex>>
  /\ req[r].pc = "idle"
  /\ arrivals < MaxArrivals
  /\ arrivals' = arrivals + 1
  /\ lastStats' = NoStats
  /\ LET q0 == Request("/scrape", key, url, mode)
         h0 == [Idle EXCEPT !.url = url, !.mode = mode]
     IN IF preHandler("/scrape", key) = "401"
        THEN /\ lastSync' = Unauthorized(q0)
             /\ UNCHANGED <<req, retryDue>>
        ELSE IF UrlMissing(url)
        THEN /\ lastSync' = Reply(q0, 400, "URL is required")
             /\ UNCHANGED <<req, retryDue>>
        ELSE /\ retryDue' = FALSE
             /\ lastSync' = NoRequest
             /\ IF NeedsLaunch(browserPromise)
                THEN /\ Len(launches) + Cardinality(AtWhich) < MaxLaunch
                     /\ req' = [req EXCEPT ![r] = [h0 EXCEPT !.pc = "which"]]
                ELSE req' = [req EXCEPT ![r] = [h0 EXCEPT !.pc = "awaitBrowser", !.aw = browserPromise]]
  /\ UNCHANGED <<browserPromise, launches, scrapeStats, statsFile, ok200>>

\* ---- getBrowser

\* `which chromium` settles; on success puppeteer.launch is called and its
\* promise stored, on failure getBrowser rejects into the handler's catch
WhichDone(r, ok) ==
  /\ UNCHANGED <<flush, ex>>
  /\ req[r].pc = "which"
  /\ IF ok
     THEN /\ launches' = Append(launches, "pending")
          /\ browserPromise' = Len(launches) + 1
          /\ req' = [req EXCEPT ![r] = [@ EXCEPT !.pc = "awaitBrowser", !.aw = Len(launches) + 1]]
     ELSE /\ req' = [req EXCEPT ![r] = Throw(@, "which")]
          /\ UNCHANGED <<launches, browserPromise>>
  /\ UNCHANGED <<scrapeStats, statsFile, arrivals, lastSync, ok200,
                 lastStats, retryDue>>

\* puppeteer.launch settles; a rejection runs the .catch callback
LaunchSettle(a, ok) ==
  /\ UNCHANGED <<flush, ex>>
  /\ a \in 1..Len(launches)
  /\ launches[a] = "pending"
  /\ IF ok
     THEN /\ launches' = [launches EXCEPT ![a] = "ok"]
          /\ UNCHANGED <<browserPromise, retryDue>>
     ELSE /\ launches' = [launches EXCEPT ![a] = "failed"]
          /\ browserPromise' = onLaunchError(browserPromise)
          /\ retryDue' = TRUE
  /\ UNCHANGED <<req, scrapeStats, statsFile, arrivals, lastSync, ok200,
                 lastStats>>

\* `await getBrowser()` resumes in the handler
BrowserReady(r) ==
  /\ UNCHANGED <<flush, ex>>
  /\ req[r].pc = "awaitBrowser"
  /\ launches[req[r].aw] # "pending"
  /\ req' = [req EXCEPT ![r] =
       IF launches[@.aw] = "ok" THEN [@ EXCEPT !.pc = "newPage"]
       ELSE Throw(@, "launch")]
  /\ UNCHANGED <<browserPromise, launches, scrapeStats, statsFile,
                 arrivals, lastSync, ok200, lastStats, retryDue>>

\* ---- the rest of the /scrape handler

\* browser.newPage() settles
NewPage(r, ok) ==
  /\ UNCHANGED <<flush, ex>>
  /\ req[r].pc = "newPage"
  /\ req' = [req EXCEPT ![r] =
       IF ok THEN [@ EXCEPT !.pc = "goto", !.page = "open", !.aw = Null]
       ELSE Throw(@, "newPage")]
  /\ UNCHANGED <<browserPromise, launches, scrapeStats, statsFile,
                 arrivals, lastSync, ok200, lastStats, retryDue>>

\* page.goto(url, ...) settles; the switch then calls one extractor
Goto(r, ok) ==
  /\ UNCHANGED <<flush, ex>>
  /\ req[r].pc = "goto"
  /\ req' = [req EXCEPT ![r] =
       IF ok THEN [@ EXCEPT !.pc = extractorFor(req[r].mode)]
       ELSE Throw(@, "goto")]
  /\ UNCHANGED <<browserPromise, launches, scrapeStats, statsFile,
                 arrivals, lastSync, ok200, lastStats, retryDue>>

Extractors == {"takeScreenshot", "getPageSource", "getPrintVersion",
               "extractEnhancedArticle", "extractReadableContent"}

\* the extractor settles; logScrape then runs up to `await fs.mkdir`
Extract(r, ok) ==
  /\ req[r].pc \in Extractors
  /\ IF ok
     THEN /\ scrapeStats' = logScrape(scrapeStats, getCurrentMonth(Now), req[r].url, req[r].mode)
          /\ req' = [req EXCEPT ![r] = [@ EXCEPT !.pc = "mkdir", !.month = getCurrentMonth(Now),
                                                  !.logged = TRUE]]
          /\ flush' = IF flush = "clean" /\ \E x \in Slots \ {r} : req[x].pc \in {"mkdir", "write"}
                      THEN "overlapped" ELSE flush
     ELSE /\ req' = [req EXCEPT ![r] = Throw(@, "extract")]
          /\ UNCHANGED <<scrapeStats, flush>>
  /\ UNCHANGED ex
  /\ UNCHANGED <<browserPromise, launches, statsFile, arrivals, lastSync,
                 ok200, lastStats, retryDue>>

\* fs.mkdir settles (ensureDataDir swallows its error); saveStats then
\* serialises the counters as they are now and calls fs.writeFile
Mkdir(r) ==
  /\ UNCHANGED <<flush, ex>>
  /\ req[r].pc = "mkdir"
  /\ req' = [req EXCEPT ![r] = [@ EXCEPT !.pc = "write", !.data = JSONstringify(scrapeStats)]]
  /\ UNCHANGED <<browserPromise, launches, scrapeStats, statsFile,
                 arrivals, lastSync, ok200, lastStats, retryDue>>

\* fs.writeFile settles; the handler sends the content or lands in catch
WriteFile(r, ok) ==
  /\ req[r].pc = "write"
  /\ IF ok
     THEN /\ statsFile' = fsWriteFile(statsFile, req[r].data)
          /\ req' = [req EXCEPT ![r] = Finally(SendContent([@ EXCEPT !.data = {}, !.month = NoMonth]))]
          /\ ok200' = logScrape(ok200, req[r].month, req[r].url, req[r].mode)
          /\ UNCHANGED flush
     ELSE /\ req' = [req EXCEPT ![r] = OnWriteError([@ EXCEPT !.data = {}, !.month = NoMonth])]
          /\ flush' = "failed"
          /\ UNCHANGED <<statsFile, ok200>>
  /\ UNCHANGED ex
  /\ UNCHANGED <<browserPromise, launches, scrapeStats, arrivals,
                 lastSync, lastStats, retryDue>>

\* page.close() settles; a rejection (target already gone) goes to
\* console.error; the handler returns
PageClose(r) ==
  /\ UNCHANGED <<flush, ex>>
  /\ req[r].pc = "closing"
  /\ req' = [req EXCEPT ![r] = [@ EXCEPT !.pc = "done", !.page = "closed",
                                         !.closeCalls = @ + 1,
                                         !.url = "-", !.mode = "-"]]
  /\ UNCHANGED <<browserPromise, launches, scrapeStats, statsFile,
                 arrivals, lastSync, ok200, lastStats, retryDue>>

\* ---- environment

\* the frame of a returned handler is dropped
Forget(r) ==
  /\ UNCHANGED <<flush, ex>>
  /\ req[r].pc = "done"
  /\ req' = [req EXCEPT ![r] = Idle]
  /\ UNCHANGED <<browserPromise, launches, scrapeStats, statsFile,
                 arrivals, lastSync, ok200, lastStats, retryDue>>

Next ==
  \/ \E k \in Keys : ArriveRoot(k)
  \/ \E k \in Keys : ArriveStats(k)
  \/ \E r \in Slots, k \in Keys, b \in Bodies : ArriveScrape(r, k, b[1], b[2])
  \/ \E r \in Slots, ok \in BOOLEAN : WhichDone(r, ok)
  \/ \E a \in 1..MaxLaunch, ok \in BOOLEAN : LaunchSettle(a, ok)
  \/ \E r \in Slots : BrowserReady(r)
  \/ \E r \in Slots, ok \in BOOLEAN : NewPage(r, ok)
  \/ \E r \in Slots, ok \in BOOLEAN : Goto(r, ok)
  \/ \E r \in Slots, ok \in BOOLEAN : Extract(r, ok)
  \/ \E r \in Slots : Mkdir(r)
  \/ \E r \in Slots, ok \in BOOLEAN : WriteFile(r, ok)
  \/ \E r \in Slots : PageClose(r)
  \/ \E r \in Slots : Forget(r)

Spec == Init /\ [][Next]_vars

TypeOK ==
  /\ browserPromise \in 0..Len(launches)
  /\ arrivals \in 0..MaxArrivals

\* ---- the extractors of one handler, from the switch to logScrape

Modes == {"text", "article", "screenshot", "source", "print", Omitted, "pdf"}

ExUrl == "u1"

Bylines == {NoByline, "", "A"}

\* a meta element: its name (or property) and its content attribute
MetaTags == {<<"description", "d">>, <<"keywords", "k">>, <<"keywords", "">>,
             <<"author", "a">>, <<"publication_date", "p">>, <<"og:title", "o">>}

MetaSeqs == UNION {[1..n -> MetaTags] : n \in 0..MaxMetas}

\* what the extractors read of a page
Pages(mode) ==
  IF mode = "article"
  THEN {[art |-> FALSE, byline |-> NoByline, metas |-> <<>>]}
       \cup [art : {TRUE}, byline : Bylines, metas : MetaSeqs]
  ELSE [art : BOOLEAN, byline : {NoByline}, metas : {<<>>}]

Truthy(str) == str \notin {NoByline, ""}

\* article ? article.textContent : ''
textContent(e) == IF e.art THEN "t" ELSE ""

\* the string extractReadableContent returns
ReadableContent(e) ==
  IF Truthy(textContent(e)) THEN <<<<"textContent", textContent(e)>>>> ELSE <<>>

\* the object page.evaluate builds from the meta elements, the n first of them
RECURSIVE collectMeta(_, _)
collectMeta(metas, n) ==
  IF n = 0 THEN EmptyObj
  ELSE LET data == collectMeta(metas, n - 1)
           name == metas[n][1]
           content == metas[n][2]
       IN IF Truthy(name) /\ Truthy(content) THEN Put(data, name, content) ELSE data

\* relevantMetaTags in alphabetical order
relevantMetaTagsSorted == <<"author", "description", "keywords", "publication_date">>

relevantMetaTags == <<"description", "keywords", "author", "publication_date">>

\* for (const tag of relevantMetaTags) if (metadata[tag]) ..., from the i-th on
RECURSIVE MetadataLines(_, _)
MetadataLines(metadata, i) ==
  IF i > Len(relevantMetaTags) THEN <<>>
  ELSE LET tag == relevantMetaTags[i]
       IN (IF tag \in DOMAIN metadata /\ Truthy(metadata[tag])
           THEN <<<<tag, metadata[tag]>>>> ELSE <<>>)
          \o MetadataLines(metadata, i + 1)

\* the start of enhancedContent: Title, and Author if (article.byline)
TitleAndAuthor(e) ==
  <<<<"Title", "T">>>> \o (IF Truthy(e.byline) THEN <<<<"Author", e.byline>>>> ELSE <<>>)

\* getPrintVersion that captures before it emulates print
PrintPlanCaptureFirst == <<"inject", "capture", "emulatePrint", "emulateScreen">>

\* the awaited page operations of getPrintVersion
PrintPlan == <<"inject", "emulatePrint", "capture", "emulateScreen">>

PrintStep(e, op) ==
  CASE op = "inject"        -> [e EXCEPT !.styled = TRUE]
    [] op = "emulatePrint"  -> [e EXCEPT !.media = "print"]
    [] op = "capture"       -> [e EXCEPT !.out = <<<<"outerHTML", e.media>>>>]
    [] op = "emulateScreen" -> [e EXCEPT !.media = "screen"]

Did(e, op) == [e EXCEPT !.trace = Append(@, op)]

\* the extractor rejects: the handler's catch block is next
ExThrew(op) ==
  /\ ex' = [ex EXCEPT !.pc = "threw", !.err = op]
  /\ UNCHANGED scrapeStats

\* the extractor returns value to the handler, which calls logScrape
ExReturn(e, value) ==
  /\ ex' = [e EXCEPT !.pc = "logged", !.result = [returned |-> TRUE, value |-> value]]
  /\ scrapeStats' = logScrape(scrapeStats, getCurrentMonth(Now), ExUrl, e.mode)

notExtract == <<req, browserPromise, launches, statsFile, arrivals, lastSync,
                ok200, lastStats, retryDue, flush>>

\* page.goto has resolved: the switch calls an extractor
ExStart(mode, page) ==
  /\ ex.pc = "idle" /\ ex.runs < MaxRuns
  /\ ex' = [ex EXCEPT !.pc = extractorFor(mode), !.mode = mode,
                       !.art = page.art, !.byline = page.byline, !.metas = page.metas,
                       !.calls = <<extractorFor(mode)>>, !.runs = @ + 1]
  /\ UNCHANGED scrapeStats
  /\ UNCHANGED notExtract

ExScreenshot(ok) ==
  /\ ex.pc = "takeScreenshot"
  /\ IF ok THEN ExReturn(Did(ex, "screenshot"), <<<<"png", "base64">>>>)
     ELSE ExThrew("screenshot")
  /\ UNCHANGED notExtract

ExSource(ok) ==
  /\ ex.pc = "getPageSource"
  /\ IF ok THEN ExReturn(Did(ex, "content"), <<<<"html", "source">>>>)
     ELSE ExThrew("content")
  /\ UNCHANGED notExtract

ExText(ok) ==
  /\ ex.pc = "extractReadableContent"
  /\ IF ok THEN ExReturn(Did(ex, "content"), ReadableContent(ex))
     ELSE ExThrew("content")
  /\ UNCHANGED notExtract

\* one awaited page operation of getPrintVersion settles
ExPrint(ok) ==
  /\ ex.pc = "getPrintVersion"
  /\ LET op == PrintPlan[Len(ex.trace) + 1]
         e  == PrintStep(Did(ex, op), op)
     IN IF ~ok THEN ExThrew(op)
        ELSE IF Len(e.trace) = Len(PrintPlan) THEN ExReturn(e, e.out)
        ELSE ex' = e /\ UNCHANGED scrapeStats
  /\ UNCHANGED notExtract

\* page.content() of extractEnhancedArticle settles
ExArticleContent(ok) ==
  /\ ex.pc = "extractEnhancedArticle"
  /\ IF ~ok THEN ExThrew("content")
     ELSE IF ~ex.art THEN ExReturn(Did(ex, "content"), <<>>)
     ELSE /\ ex' = [Did(ex, "content") EXCEPT
                      !.pc = "article:extractReadableContent",
                      !.calls = Append(@, "extractReadableContent"),
                      !.out = TitleAndAuthor(ex)]
          /\ UNCHANGED scrapeStats
  /\ UNCHANGED notExtract

\* page.content() of the extractReadableContent that extractEnhancedArticle calls
ExArticleText(ok) ==
  /\ ex.pc = "article:extractReadableContent"
  /\ IF ~ok THEN ExThrew("content")
     ELSE /\ ex' = [Did(ex, "content") EXCEPT
                      !.pc = "article:evaluate",
                      !.out = @ \o <<<<"Content", textContent(ex)>>>>]
          /\ UNCHANGED scrapeStats
  /\ UNCHANGED notExtract

\* page.evaluate of extractEnhancedArticle settles
ExArticleMeta(ok) ==
  /\ ex.pc = "article:evaluate"
  /\ IF ~ok THEN ExThrew("evaluate")
     ELSE ExReturn(Did(ex, "evaluate"),
                   ex.out \o <<<<"Metadata", "">>>>
                   \o MetadataLines(collectMeta(ex.metas, Len(ex.metas)), 1))
  /\ UNCHANGED notExtract

\* the handler is followed no further
ExDone ==
  /\ ex.pc \in {"logged", "threw"}
  /\ ex' = [ExIdle EXCEPT !.runs = ex.runs]
  /\ UNCHANGED scrapeStats
  /\ UNCHANGED notExtract

NextExtract ==
  \/ /\ ex.pc = "idle"
     /\ \E mode \in Modes : \E page \in Pages(mode) : ExStart(mode, page)
  \/ \E ok \in BOOLEAN : ExScreenshot(ok)
  \/ \E ok \in BOOLEAN : ExSource(ok)
  \/ \E ok \in BOOLEAN : ExText(ok)
  \/ \E ok \in BOOLEAN : ExPrint(ok)
  \/ \E ok \in BOOLEAN : ExArticleContent(ok)
  \/ \E ok \in BOOLEAN : ExArticleText(ok)
  \/ \E ok \in BOOLEAN : ExArticleMeta(ok)
  \/ ExDone

SpecExtract == Init /\ [][NextExtract]_vars

\* ---- the claims

Attempts == 1..Len(launches)
Pending == {a \in Attempts : launches[a] = "pending"}
Quiescent == \A r \in Slots : ~InFlight(req[r])
GenericError == "An error occurred while scraping the website"

\* C1: requests that call getBrowser while no browser exists share one launch:
\* at no time are two launch attempts in flight, and the requests waiting for
\* a pending launch all wait for the same attempt.
C1_OneLaunchInFlight ==
  /\ Cardinality(Pending) <= 1
  /\ \A r1, r2 \in Slots :
       (req[r1].pc = "awaitBrowser" /\ req[r2].pc = "awaitBrowser"
        /\ req[r1].aw \in Pending /\ req[r2].aw \in Pending)
       => req[r1].aw = req[r2].aw

\* C2: once a launch has succeeded no further launch attempt is started, and
\* a browserPromise that holds a launched browser is never cleared or replaced.
C2_HandleStaysCached ==
  [][ (\E a \in Attempts : launches[a] = "ok")
      => /\ Len(launches') = Len(launches)
         /\ (browserPromise # Null /\ launches[browserPromise] = "ok")
            => browserPromise' = browserPromise ]_vars

\* C3: a failing launch clears browserPromise, every request waiting on that
\* attempt answers with the generic 500, and the next getBrowser call after
\* the failure starts a fresh launch attempt.
C3_FailureThenFreshLaunch ==
  [][ /\ (\E a \in Attempts : launches[a] = "pending" /\ launches'[a] = "failed")
         => browserPromise' = Null
      /\ \A r \in Slots :
           (req[r].pc = "awaitBrowser" /\ launches[req[r].aw] = "failed"
            /\ req'[r] # req[r])
           => (req'[r].status = 500 /\ req'[r].body = GenericError)
      /\ \A r \in Slots :
           (retryDue /\ req[r].pc = "idle" /\ req'[r].pc # "idle")
           => req'[r].pc = "which" ]_vars

\* C4: a page a handler opened is closed by it exactly once before it returns,
\* on the success and on the failure path, and no launched browser is ever
\* closed; so with no request in flight no page is open.
C4_PageClosedOnce ==
  /\ \A r \in Slots :
       /\ req[r].page = "open" => InFlight(req[r])
       /\ req[r].closeCalls = (IF req[r].page = "closed" THEN 1 ELSE 0)
       /\ req[r].page = "closed" => req[r].pc = "done"
  /\ Quiescent => \A r \in Slots : req[r].page # "open"
  /\ \A a \in Attempts : launches[a] \in {"pending", "ok", "failed"}

\* a handler returned after a failed step with its page closed, the browser
\* it used still there
C4_Witness ==
  \E r \in Slots :
    /\ req[r].pc = "done" /\ req[r].page = "closed" /\ req[r].closeCalls = 1
    /\ req[r].err = "extract"
    /\ Quiescent
    /\ \E a \in Attempts : launches[a] = "ok"

\* C5: with no request in flight, /stats reports for every month/url/mode
\* exactly the number of scrapes answered 200.
C5_CountEqualsSuccesses ==
  Quiescent => StatsReply(scrapeStats) = StatsReply(ok200)

\* C6: a request to /scrape or /stats without the configured key is answered
\* 401 and its step changes no handler frame, browser, counter or file.
C6_UnauthorizedRejected ==
  /\ [](  (lastSync.route \in {"/scrape", "/stats"} /\ lastSync.key # API_KEY)
          => (lastSync.status = 401 /\ lastSync.nresp = 1
              /\ lastSync.body = "Unauthorized: Invalid API key"))
  /\ [][ (arrivals' # arrivals /\ lastSync'.route \in {"/scrape", "/stats"}
          /\ lastSync'.key # API_KEY)
         => UNCHANGED <<req, browserPromise, launches, scrapeStats, statsFile>> ]_vars

\* a /scrape request with a url and no key was answered 401
C6_Witness ==
  /\ lastSync.route = "/scrape" /\ lastSync.key = Missing
  /\ lastSync.status = 401

C8_ExactlyOneResponse ==
  \A r \in Slots :
    /\ req[r].nresp <= 1
    /\ req[r].pc \in {"closing", "done"} =>
         /\ req[r].nresp = 1
         /\ req[r].err = "-" => (req[r].status = 200 /\ req[r].body = "content")
         /\ req[r].err # "-" => (req[r].status = 500 /\ req[r].body = GenericError)
    /\ req[r].pc \notin {"closing", "done"} => req[r].nresp = 0

\* a handler whose fs.writeFile failed returned after answering 500
C8_Witness ==
  \E r \in Slots :
    req[r].pc = "done" /\ req[r].err = "writeFile" /\ req[r].status = 500

\* C9 as stated: two consecutive /stats answers with no /scrape request
\* arriving between them are identical.
C9_SameWithoutArrival ==
  [][ (lastStats.seen /\ lastStats'.seen) => lastStats'.body = lastStats.body ]_vars

\* C9 amended: two consecutive /stats answers with no /scrape request arriving
\* between them and none in flight at the first are identical, and answering
\* /stats changes neither the counters nor the file.
C9_StatsIdempotent ==
  [][ /\ (lastStats.seen /\ lastStats.quiet /\ lastStats'.seen)
         => lastStats'.body = lastStats.body
      /\ (arrivals' # arrivals /\ lastSync'.route = "/stats")
         => UNCHANGED <<scrapeStats, statsFile>> ]_vars

\* /stats was answered twice in a row with nothing in flight, counters not empty
C9_Witness == lastStats.pair /\ lastStats.body # {}

\* C10 as stated: usage is recorded before the response, and the page is
\* closed before the response is sent.
C10_CloseBeforeResponse ==
  \A r \in Slots :
    /\ req[r].status = 200 => req[r].logged
    /\ req[r].nresp > 0 => req[r].page # "open"

\* C10 amended: usage is recorded before the 200 is sent, the response is
\* sent before the page is closed, and the page is closed before the handler
\* returns.
C10_ResponseBeforeClose ==
  \A r \in Slots :
    /\ req[r].status = 200 => req[r].logged
    /\ req[r].page = "closed" => req[r].nresp = 1
    /\ req[r].pc = "done" => req[r].page # "open"

\* the 200 is sent, the usage recorded, the page not closed yet
C10_Witness ==
  \E r \in Slots :
    /\ req[r].pc = "closing" /\ req[r].page = "open"
    /\ req[r].status = 200 /\ req[r].logged

\* ---- usage recording

RECURSIVE SumCounts(_)
SumCounts(E) ==
  IF E = {} THEN 0
  ELSE LET e == CHOOSE x \in E : TRUE IN e[4] + SumCounts(E \ {e})

\* all the scrapes the counters hold
Total(s) == SumCounts(JSONstringify(s))

PreLogSteps == {"which", "launch", "newPage", "goto", "extract"}

\* C11: a handler that fails before or in the extractor changes neither the
\* counters nor the file; a handler increments the counters by one when its
\* extractor has succeeded, never again, and nothing else changes them; the
\* file changes only when a handler's one fs.writeFile settles; a 200 is sent
\* only by a handler that recorded and wrote.
C11_RecordedAfterExtraction ==
  [][ /\ \A r \in Slots :
           /\ (req[r].err = "-" /\ req'[r].err \in PreLogSteps)
              => (scrapeStats' = scrapeStats /\ statsFile' = statsFile
                  /\ ~req'[r].logged)
           /\ (~req[r].logged /\ req'[r].logged)
              => (req[r].pc \in Extractors
                  /\ Total(scrapeStats') = Total(scrapeStats) + 1)
           /\ (req[r].logged /\ req'[r].pc # "idle") => req'[r].logged
           /\ (req[r].status # 200 /\ req'[r].status = 200)
              => (req[r].logged /\ req[r].pc = "write"
                  /\ scrapeStats' = scrapeStats)
      /\ scrapeStats' # scrapeStats
         => Cardinality({r \in Slots : ~req[r].logged /\ req'[r].logged}) = 1
      /\ statsFile' # statsFile
         => Cardinality({r \in Slots : req[r].pc = "write" /\ req'[r].pc # "write"}) = 1
    ]_vars

\* one scrape was answered 200, another failed in page.goto: one count, and
\* the file holds it
C11_Witness ==
  \E r1, r2 \in Slots :
    /\ req[r1].status = 200 /\ req[r2].err = "goto"
    /\ Total(scrapeStats) = 1
    /\ statsFile.exists /\ statsFile.text = JSONstringify(scrapeStats)

\* C12 as stated: a failed file write does not turn the response of its
\* scrape into the generic 500.
C12_WriteFailureNot500 ==
  \A r \in Slots : req[r].err = "writeFile" => req[r].status # 500

\* C12 amended: a failed file write is thrown into the handler's try block and
\* caught: the scrape, its usage already counted, is answered with the
\* generic 500 and nothing else.
C12_WriteFailureCaught ==
  \A r \in Slots :
    req[r].err = "writeFile"
    => (req[r].status = 500 /\ req[r].body = GenericError
        /\ req[r].nresp = 1 /\ req[r].logged)

\* the write failed, the 500 is sent, the page is about to be closed
C12_Witness ==
  \E r \in Slots :
    /\ req[r].pc = "closing" /\ req[r].err = "writeFile"
    /\ req[r].status = 500 /\ flush = "failed"

\* C13 as stated: with no request in flight and no file write failed, the
\* file holds the counters as they are in memory.
C13_FileEqualsCounters ==
  (Quiescent /\ flush # "failed")
  => statsFile.text = JSONstringify(scrapeStats)

\* C13 amended: with no request in flight, no file write failed and no two
\* usage recordings run at the same time, the file holds the counters as
\* they are in memory.
C13_FileEqualsCountersSequential ==
  (Quiescent /\ flush = "clean")
  => statsFile.text = JSONstringify(scrapeStats)

\* two scrapes recorded one after the other, both in the file
C13_Witness ==
  /\ Quiescent /\ flush = "clean"
  /\ Total(scrapeStats) = 2
  /\ statsFile.exists /\ statsFile.text = JSONstringify(scrapeStats)

\* C17: each invocation of logScrape raises the count of its month/url/mode
\* by exactly one and leaves every other count as it is, whatever file
\* writes are under way, and no other step changes the counters.
C17_NoLostUpdate ==
  [][ LET m == getCurrentMonth(Now)
          Triples == {<<b[1], ModeKey(b[2])>> : b \in Bodies}
          Logging == {r \in Slots : req[r].pc \in Extractors /\ req'[r].pc = "mkdir"}
      IN /\ \A r \in Logging :
              \A t \in Triples :
                Count(scrapeStats', m, t[1], t[2])
                = Count(scrapeStats, m, t[1], t[2])
                  + (IF t = <<req[r].url, ModeKey(req[r].mode)>> THEN 1 ELSE 0)
         /\ Logging = {} => scrapeStats' = scrapeStats
    ]_vars

\* two handlers recorded the same url and mode, both file writes still under
\* way: the count is 2
C17_Witness ==
  \E r1, r2 \in Slots :
    /\ r1 # r2
    /\ req[r1].pc \in {"mkdir", "write"} /\ req[r2].pc \in {"mkdir", "write"}
    /\ req[r1].url = req[r2].url /\ req[r1].mode = req[r2].mode
    /\ Count(scrapeStats, getCurrentMonth(Now), req[r1].url, ModeKey(req[r1].mode)) = 2

\* ---- extraction

Matching(mode) ==
  IF mode = "screenshot" THEN "takeScreenshot"
  ELSE IF mode = "source" THEN "getPageSource"
  ELSE IF mode = "print" THEN "getPrintVersion"
  ELSE IF mode = "article" THEN "extractEnhancedArticle"
  ELSE "extractReadableContent"

PageOps == {"screenshot", "content", "evaluate",
            "inject", "emulatePrint", "capture", "emulateScreen"}

\* C14 as stated: a request that reaches extraction has exactly one extractor
\* invoked on its page, the one matching its mode, the text extractor for
\* text, an omitted or an unrecognised mode.
C14_ExactlyOneExtractor ==
  ex.pc # "idle" => ex.calls = <<Matching(ex.mode)>>

\* C14 amended: the switch invokes exactly one extractor, the one matching the
\* mode, the text extractor for text, an omitted or an unrecognised mode;
\* the only other invocation is that of the text extractor by the article
\* extractor that found an article; no request fails for its mode.
C14_DispatchByMode ==
  ex.pc # "idle"
  => /\ ex.calls[1] = Matching(ex.mode)
     /\ \/ Len(ex.calls) = 1
        \/ /\ ex.mode = "article" /\ ex.art
           /\ ex.calls = <<"extractEnhancedArticle", "extractReadableContent">>
     /\ ex.pc = "threw" => ex.err \in PageOps

\* a request with an unrecognised mode, served by the text extractor
C14_Witness ==
  /\ ex.pc = "logged" /\ ex.mode = "pdf"
  /\ ex.calls = <<"extractReadableContent">>
  /\ ex.result = [returned |-> TRUE, value |-> <<<<"textContent", "t">>>>]

IsPrefix(s, t) == Len(s) <= Len(t) /\ s = SubSeq(t, 1, Len(s))

\* C15: getPrintVersion does its page operations in the order inject,
\* emulate print, capture, emulate screen; what it returns is the HTML
\* captured under media type print, and the media type is screen when it
\* returns; when an operation fails it returns nothing and fails at that
\* operation.
C15_PrintOrder ==
  (ex.pc # "idle" /\ ex.calls[1] = "getPrintVersion")
  => LET order == <<"inject", "emulatePrint", "capture", "emulateScreen">>
     IN /\ IsPrefix(ex.trace, order)
        /\ ex.pc = "logged"
           => /\ ex.trace = order
              /\ ex.result = [returned |-> TRUE, value |-> <<<<"outerHTML", "print">>>>]
              /\ ex.media = "screen" /\ ex.styled
        /\ ex.pc = "threw"
           => /\ ex.result = NoResult
              /\ Len(ex.trace) < Len(order)
              /\ ex.err = order[Len(ex.trace) + 1]

\* getPrintVersion has returned
C15_Witness ==
  /\ ex.pc = "logged" /\ ex.mode = "print"
  /\ ex.result.value = <<<<"outerHTML", "print">>>>
  /\ ex.media = "screen"

FourTags == {"description", "keywords", "author", "publication_date"}

Rank(tag) ==
  IF tag = "description" THEN 1
  ELSE IF tag = "keywords" THEN 2
  ELSE IF tag = "author" THEN 3
  ELSE 4

\* the meta elements of the page that carry tag and a content
Carrying(tag) ==
  {i \in 1..Len(ex.metas) : ex.metas[i][1] = tag /\ ex.metas[i][2] # ""}

\* C16: what extractEnhancedArticle returns is '' when no article is found;
\* otherwise Title, then Author exactly when the byline is present, then
\* Content, then the metadata header, then one line for each of description,
\* keywords, author, publication_date that the page carries, in that order,
\* and no other line.
C16_ArticleSections ==
  (ex.pc = "logged" /\ ex.calls[1] = "extractEnhancedArticle")
  => IF ~ex.art THEN ex.result.value = <<>>
     ELSE LET v == ex.result.value
              hasAuthor == ex.byline \notin {NoByline, ""}
              h == IF hasAuthor THEN 4 ELSE 3
              Lines == (h + 1)..Len(v)
          IN /\ Len(v) >= h
             /\ [i \in 1..h |-> v[i][1]]
                = IF hasAuthor THEN <<"Title", "Author", "Content", "Metadata">>
                  ELSE <<"Title", "Content", "Metadata">>
             /\ hasAuthor => v[2] = <<"Author", ex.byline>>
             /\ \A i \in Lines :
                  /\ v[i][1] \in FourTags
                  /\ Carrying(v[i][1]) # {}
                  /\ \E c \in Carrying(v[i][1]) :
                       /\ v[i][2] = ex.metas[c][2]
                       /\ \A d \in Carrying(v[i][1]) : d <= c
             /\ \A i, j \in Lines : i < j => Rank(v[i][1]) < Rank(v[j][1])
             /\ \A tag \in FourTags :
                  Carrying(tag) # {} => \E i \in Lines : v[i][1] = tag

\* an article with a byline on a page that carries the four tags in the
\* reverse of their listing order
C16_Witness ==
  /\ ex.pc = "logged" /\ ex.mode = "article" /\ ex.byline = "A"
  /\ ex.metas = <<<<"publication_date", "p">>, <<"author", "a">>,
                  <<"keywords", "k">>, <<"description", "d">>>>
  /\ Len(ex.result.value) = 8

ExCount(s, k) == Count(s, getCurrentMonth(Now), ExUrl, k)

\* C18: a handler whose extractor returned counts under the mode it received,
\* "undefined" when it received none; one that received no mode or an
\* unrecognised one ran the text extractor and leaves the count of "text" as
\* it is; the count of "text" changes only for a request that sent "text".
C18_CountedAsReceived ==
  [][ /\ (ex.pc # "logged" /\ ex'.pc = "logged")
         => LET key == IF ex'.mode = Omitted THEN "undefined" ELSE ex'.mode
            IN /\ ExCount(scrapeStats', key) = ExCount(scrapeStats, key) + 1
               /\ ex'.mode \notin {"text", "article", "screenshot", "source", "print"}
                  => /\ ex'.calls = <<"extractReadableContent">>
                     /\ key # "text"
                     /\ ExCount(scrapeStats', "text") = ExCount(scrapeStats, "text")
      /\ ExCount(scrapeStats', "text") # ExCount(scrapeStats, "text")
         => (ex'.pc = "logged" /\ ex'.mode = "text")
    ]_vars

\* after a request with mode text, one without a mode: one count each
C18_Witness ==
  /\ ex.pc = "logged" /\ ex.mode = Omitted
  /\ ex.calls = <<"extractReadableContent">>
  /\ ExCount(scrapeStats, "undefined") = 1 /\ ExCount(scrapeStats, "text") = 1

====
